---- MODULE Spec2Model ----
(***************************************************************************)
(* Model of stampy_chat/db/session.py: the make_session context manager    *)
(* and the ItemAdder batch writer, over an abstract SQLAlchemy session     *)
(* (pending items, a poisoned flag after a failed flush) and one database  *)
(* (the set of persisted items).                                           *)
(*                                                                         *)
(* Library behaviour assumed: Session.commit() is atomic (it either        *)
(* persists every pending item or none and raises SQLAlchemyError);        *)
(* after a failed commit the session refuses further commits until         *)
(* rollback() is called; rollback() and close() do not raise and discard   *)
(* the pending items; Session.add_all registers its items one by one and   *)
(* stops at the first item it rejects.  time.time() does not go backwards. *)
(***************************************************************************)
EXTENDS Integers, FiniteSets, Sequences, TLC

\* ---- bounds of the model ----
MaxItems == 4       \* items ever handed to a session (ids 1..MaxItems)
MaxPerCall == 2     \* items passed to one add call
MaxTime == 2        \* last value of the clock
MaxBatch == 3       \* largest batch_size a writer is constructed with
MaxSave == 1        \* largest save_every a writer is constructed with
MaxSessions == 2    \* Session objects one writer creates

VARIABLES
    \* the database behind DB_CONNECTION_URI and the clock
    persisted,      \* set of item ids durably committed
    nextId,         \* next fresh item id
    now,            \* time.time()
    \* ItemAdder fields
    alive,          \* FALSE once __del__ has run
    session,        \* self.session: "open", "closed" or "none"
    sessionId,      \* which Session object self.session is: the n-th created
    pending,        \* items registered in self.session and not committed
    poisoned,       \* self.session had a failed commit and no rollback yet
    batch_size,     \* self.batch_size
    save_every,     \* self.save_every
    _counter,       \* self._counter
    _last_save,     \* self._last_save
    \* make_session scope
    msPc,           \* "idle", "in_block" or "exited"
    msAuto,         \* the auto_commit argument
    msPending,      \* items registered in the yielded session
    msClosed,       \* the yielded session has been closed
    \* threads calling add on the one ItemAdder
    tpc,            \* where each thread is in add: "idle", "added", "loaded", "stored"
    tload,          \* the value of self._counter each thread has read for +=
    serialized,     \* the callers hold a lock of their own around add
    committedAt,    \* counter values at which an add of a thread attempted a commit
    \* observation of the last ItemAdder call and of the last scope
    call,
    sinceCommit,    \* number of items registered since the last successful commit
    sinceFail,      \* items registered since the last commit attempt
    scope

vars == <<persisted, nextId, now, alive, session, sessionId, pending, poisoned,
          batch_size, save_every, _counter, _last_save,
          msPc, msAuto, msPending, msClosed, tpc, tload, serialized,
          committedAt, call, sinceCommit, sinceFail, scope>>

adderVars == <<alive, session, sessionId, pending, poisoned, batch_size, save_every,
               _counter, _last_save, call, sinceCommit, sinceFail>>
factoryVars == <<msPc, msAuto, msPending, msClosed, scope>>
threadVars == <<tpc, tload, serialized, committedAt>>

Threads == {"t1", "t2"}

Outcomes == {"ok", "db_error"}

\* what the last ItemAdder call did: its operation, the number of items it
\* registered, the commits it attempted, what the database answered to the
\* commit (db), the outcome of session.commit() (out), what the call raised,
\* and, for an add that counted its items (n of them): whether more than
\* save_every had elapsed when it started (stale) and when it evaluated the
\* policy (due), and whether it attempted a commit on the count condition
\* alone with fewer than batch_size items in the session (short)
Observed(op, n, r, stale, due, short) ==
    [op |-> op, n |-> n, attempts |-> r.attempts, db |-> r.db, out |-> r.out,
     raised |-> r.raised, stale |-> stale, due |-> due, short |-> short]

NoCall == [op |-> "none", n |-> 0, attempts |-> 0, db |-> "none", out |-> "none",
           raised |-> "none", stale |-> FALSE, due |-> FALSE, short |-> FALSE]

NoScope == [commits |-> 0, cause |-> "none", raised |-> "none",
            written |-> {}]

\* ids of the k items registered next
Fresh(k) == nextId .. (nextId + k - 1)

\* ---- ItemAdder ----

\* a check that also replaces a session that has been closed
NeedsSessionUnlessOpen(sess) == sess # "open"

\* get_session, line 61: if not self.session
NeedsSession(sess) == sess = "none"

\* a counter that counts calls instead of items
CountedCalls(counter, n) == counter + 1

\* add, line 75: self._counter += len(items)
Counted(counter, n) == counter + n

\* the policy that skips a writer that has counted nothing yet
ShouldCommitNonZero(counter, bs, t, last, se) ==
    (counter > 0 /\ (counter % bs) = 0) \/ t - last > se

\* the policy without its count condition
ShouldCommitTimeOnly(counter, bs, t, last, se) ==
    t - last > se

\* the policy without its time condition
ShouldCommitCountOnly(counter, bs, t, last, se) ==
    (counter % bs) = 0

\* the policy with the time condition off by one
ShouldCommitAtLeast(counter, bs, t, last, se) ==
    (counter % bs) = 0 \/ t - last >= se

\* get_session, line 67: the commit policy evaluated after the block
ShouldCommit(counter, bs, t, last, se) ==
    (counter % bs) = 0 \/ t - last > se

\* Session.commit() on a session holding pend: what the library does
SessionCommit(pend, pers, pois, out) ==
    IF out = "ok" /\ ~pois
    THEN [pending |-> {}, persisted |-> pers \cup pend, poisoned |-> FALSE,
          out |-> "ok"]
    ELSE [pending |-> pend, persisted |-> pers, poisoned |-> TRUE,
          out |-> "db_error"]

\* commit that re-raises without rolling back
CommitNoRollback(pend, pers, pois, last, t, out) ==
    LET c == SessionCommit(pend, pers, pois, out) IN
    [pending |-> c.pending, persisted |-> c.persisted,
     poisoned |-> c.poisoned, last_save |-> IF c.out = "ok" THEN t ELSE last,
     attempts |-> 1, db |-> out, out |-> c.out,
     raised |-> IF c.out = "ok" THEN "none" ELSE "db_error"]

\* commit that empties the session with expunge_all() instead of rollback()
CommitExpunge(pend, pers, pois, last, t, out) ==
    LET c == SessionCommit(pend, pers, pois, out) IN
    [pending |-> {}, persisted |-> c.persisted,
     poisoned |-> c.poisoned, last_save |-> IF c.out = "ok" THEN t ELSE last,
     attempts |-> 1, db |-> out, out |-> c.out,
     raised |-> IF c.out = "ok" THEN "none" ELSE "db_error"]

\* commit that stamps _last_save whether or not the commit succeeded
CommitStampAlways(pend, pers, pois, last, t, out) ==
    LET c == SessionCommit(pend, pers, pois, out) IN
    [pending |-> {}, persisted |-> c.persisted,
     poisoned |-> FALSE, last_save |-> t,
     attempts |-> 1, db |-> out, out |-> c.out,
     raised |-> IF c.out = "ok" THEN "none" ELSE "db_error"]

\* ItemAdder.commit: commit, on SQLAlchemyError roll back and re-raise,
\* on success stamp _last_save
Commit(pend, pers, pois, last, t, out) ==
    LET c == SessionCommit(pend, pers, pois, out) IN
    IF c.out = "ok"
    THEN [pending |-> c.pending, persisted |-> c.persisted,
          poisoned |-> c.poisoned, last_save |-> t,
          attempts |-> 1, db |-> out, out |-> "ok", raised |-> "none"]
    ELSE [pending |-> {}, persisted |-> c.persisted,
          poisoned |-> FALSE, last_save |-> last,
          attempts |-> 1, db |-> out, out |-> "db_error", raised |-> "db_error"]

\* the branch of get_session/__del__ that does not commit
NoCommit(pend, pers, pois, last) ==
    [pending |-> pend, persisted |-> pers, poisoned |-> pois,
     last_save |-> last, attempts |-> 0, db |-> "none", out |-> "none",
     raised |-> "none"]

TypeOK ==
    /\ persisted \subseteq 1..MaxItems
    /\ nextId \in 1..(MaxItems + 1)
    /\ now \in 0..MaxTime
    /\ alive \in BOOLEAN
    /\ session \in {"open", "closed", "none"}
    /\ sessionId \in 1..MaxSessions
    /\ pending \subseteq 1..MaxItems
    /\ poisoned \in BOOLEAN
    /\ batch_size \in 1..MaxBatch
    /\ save_every \in 1..MaxSave
    /\ _counter \in 0..MaxItems
    /\ _last_save \in 0..MaxTime
    /\ msPc \in {"idle", "in_block", "exited"}
    /\ msAuto \in BOOLEAN
    /\ msPending \subseteq 1..MaxItems
    /\ msClosed \in BOOLEAN
    /\ tpc \in [Threads -> {"idle", "added", "loaded", "stored"}]
    /\ tload \in [Threads -> 0..MaxItems]
    /\ serialized \in BOOLEAN
    /\ committedAt \subseteq 0..MaxItems

\* module import and ItemAdder.__init__(engine, batch_size, save_every)
Init ==
    /\ persisted = {}
    /\ nextId = 1
    /\ now = 0
    /\ alive = TRUE
    /\ session = "open"
    /\ sessionId = 1
    /\ pending = {}
    /\ poisoned = FALSE
    /\ batch_size \in 1..MaxBatch
    /\ save_every \in 1..MaxSave
    /\ _counter = 0
    /\ _last_save = now
    /\ msPc = "idle"
    /\ msAuto = FALSE
    /\ msPending = {}
    /\ msClosed = FALSE
    /\ tpc = [t \in Threads |-> "idle"]
    /\ tload = [t \in Threads |-> 0]
    /\ serialized = FALSE
    /\ committedAt = {}
    /\ call = NoCall
    /\ sinceCommit = 0
    /\ sinceFail = {}
    /\ scope = NoScope

\* the clock advances between calls
Tick ==
    /\ now < MaxTime
    /\ now' = now + 1
    /\ UNCHANGED <<persisted, nextId, adderVars, factoryVars, threadVars>>

\* ItemAdder.add(*items) with n items that the session accepts; d is the
\* time that passes inside the call before the policy is evaluated, out the
\* outcome of session.commit() should it be called
Add(n, d, out) ==
    /\ alive
    /\ nextId + n - 1 <= MaxItems
    /\ now + d <= MaxTime
    /\ LET recreate == NeedsSession(session)
           pend0 == IF recreate THEN {} ELSE pending
           pois0 == IF recreate THEN FALSE ELSE poisoned
           pend1 == pend0 \cup Fresh(n)
           cnt == Counted(_counter, n)
           t == now + d
           r == IF ShouldCommit(cnt, batch_size, t, _last_save, save_every)
                THEN Commit(pend1, persisted, pois0, _last_save, t, out)
                ELSE NoCommit(pend1, persisted, pois0, _last_save)
       IN /\ session' = IF recreate THEN "open" ELSE session
          /\ sessionId' = IF recreate THEN sessionId + 1 ELSE sessionId
          /\ _counter' = cnt
          /\ now' = t
          /\ nextId' = nextId + n
          /\ pending' = r.pending
          /\ persisted' = r.persisted
          /\ poisoned' = r.poisoned
          /\ _last_save' = r.last_save
          /\ sinceCommit' = IF r.out = "ok" THEN 0 ELSE sinceCommit + n
          /\ sinceFail' = IF r.attempts = 1 THEN {} ELSE sinceFail \cup Fresh(n)
          /\ call' = Observed("add", n, r, now - _last_save > save_every,
                               t - _last_save > save_every,
                               /\ r.attempts = 1
                               /\ ~(t - _last_save > save_every)
                               /\ Cardinality(pend1) < batch_size)
    /\ UNCHANGED <<alive, batch_size, save_every, factoryVars, threadVars>>

\* ItemAdder.add(*items) where session.add_all raises after registering k
\* items: the exception leaves get_session at the yield, the counter is not
\* incremented and the policy is not evaluated
AddRaises(k) ==
    /\ alive
    /\ nextId + k - 1 <= MaxItems
    /\ LET recreate == NeedsSession(session)
           pend0 == IF recreate THEN {} ELSE pending
       IN /\ session' = IF recreate THEN "open" ELSE session
          /\ sessionId' = IF recreate THEN sessionId + 1 ELSE sessionId
          /\ poisoned' = IF recreate THEN FALSE ELSE poisoned
          /\ pending' = pend0 \cup Fresh(k)
          /\ nextId' = nextId + k
          /\ sinceCommit' = sinceCommit + k
          /\ sinceFail' = sinceFail \cup Fresh(k)
          /\ call' = [op |-> "add_raises", n |-> 0, attempts |-> 0,
                      db |-> "none", out |-> "none", raised |-> "add_error",
                      stale |-> FALSE, due |-> FALSE, short |-> FALSE]
    /\ UNCHANGED <<persisted, now, alive, batch_size, save_every, _counter,
                   _last_save, factoryVars, threadVars>>

\* ItemAdder.commit() called by the owner
CommitCall(out) ==
    /\ alive
    /\ session # "none"
    /\ LET r == Commit(pending, persisted, poisoned, _last_save, now, out)
       IN /\ pending' = r.pending
          /\ persisted' = r.persisted
          /\ poisoned' = r.poisoned
          /\ _last_save' = r.last_save
          /\ sinceCommit' = IF r.out = "ok" THEN 0 ELSE sinceCommit
          /\ sinceFail' = {}
          /\ call' = Observed("commit", 0, r, FALSE, FALSE, FALSE)
    /\ UNCHANGED <<nextId, now, alive, session, sessionId, batch_size,
                   save_every, _counter, factoryVars, threadVars>>

\* ItemAdder.__del__: commit and close when a session is held; a commit that
\* raises leaves __del__ before session.close()
Finalize(out) ==
    /\ alive
    /\ alive' = FALSE
    /\ LET r == IF session # "none"
                THEN Commit(pending, persisted, poisoned, _last_save, now, out)
                ELSE NoCommit(pending, persisted, poisoned, _last_save)
       IN /\ pending' = r.pending
          /\ persisted' = r.persisted
          /\ poisoned' = r.poisoned
          /\ _last_save' = r.last_save
          /\ session' = IF session # "none" /\ r.raised = "none"
                        THEN "closed" ELSE session
          /\ sinceCommit' = IF r.out = "ok" THEN 0 ELSE sinceCommit
          /\ sinceFail' = IF r.attempts = 1 THEN {} ELSE sinceFail
          /\ call' = Observed("del", 0, r, FALSE, FALSE, FALSE)
    /\ UNCHANGED <<nextId, now, sessionId, batch_size, save_every, _counter,
                   factoryVars, threadVars>>

\* the owner clears the field (adder.session = None): the Session object and
\* what was registered in it are gone, the state get_session tests for
DropSession ==
    /\ alive
    /\ session # "none"
    /\ sessionId < MaxSessions
    /\ session' = "none"
    /\ pending' = {}
    /\ poisoned' = FALSE
    /\ UNCHANGED <<persisted, nextId, now, alive, sessionId, batch_size,
                   save_every, _counter, _last_save, call, sinceCommit,
                   sinceFail, factoryVars, threadVars>>

\* the owner closes the session (adder.session.close()): the object stays in
\* the field, emptied
CloseSession ==
    /\ alive
    /\ session = "open"
    /\ session' = "closed"
    /\ pending' = {}
    /\ poisoned' = FALSE
    /\ UNCHANGED <<persisted, nextId, now, alive, sessionId, batch_size,
                   save_every, _counter, _last_save, call, sinceCommit,
                   sinceFail, factoryVars, threadVars>>

\* ---- ItemAdder.add from several threads ----

\* the callers agree, before the first add, to hold a lock around every add
UseLock ==
    /\ ~serialized
    /\ nextId = 1
    /\ \A t \in Threads : tpc[t] = "idle"
    /\ serialized' = TRUE
    /\ UNCHANGED <<persisted, nextId, now, adderVars, factoryVars, tpc, tload,
                   committedAt>>

\* add(item), lines 73-74: get_session up to its yield, then
\* session.add_all(items)
TBegin(t) ==
    /\ alive
    /\ tpc[t] = "idle"
    /\ nextId <= MaxItems
    /\ serialized => \A u \in Threads : tpc[u] = "idle"
    /\ LET recreate == NeedsSession(session)
           pend0 == IF recreate THEN {} ELSE pending
       IN /\ session' = IF recreate THEN "open" ELSE session
          /\ sessionId' = IF recreate THEN sessionId + 1 ELSE sessionId
          /\ poisoned' = IF recreate THEN FALSE ELSE poisoned
          /\ pending' = pend0 \cup Fresh(1)
    /\ nextId' = nextId + 1
    /\ tpc' = [tpc EXCEPT ![t] = "added"]
    /\ UNCHANGED <<persisted, now, alive, batch_size, save_every, _counter,
                   _last_save, call, sinceCommit, sinceFail, factoryVars,
                   tload, serialized, committedAt>>

\* add(item), line 75: self._counter is read for the +=
TLoad(t) ==
    /\ tpc[t] = "added"
    /\ tload' = [tload EXCEPT ![t] = _counter]
    /\ tpc' = [tpc EXCEPT ![t] = "loaded"]
    /\ UNCHANGED <<persisted, nextId, now, adderVars, factoryVars, serialized,
                   committedAt>>

\* add(item), line 75: the sum is stored in self._counter
TStore(t) ==
    /\ tpc[t] = "loaded"
    /\ _counter' = Counted(tload[t], 1)
    /\ tload' = [tload EXCEPT ![t] = 0]
    /\ tpc' = [tpc EXCEPT ![t] = "stored"]
    /\ UNCHANGED <<persisted, nextId, now, alive, session, sessionId, pending,
                   poisoned, batch_size, save_every, _last_save, call,
                   sinceCommit, sinceFail, factoryVars, serialized, committedAt>>

\* get_session after its yield, lines 67-69: the policy is evaluated on the
\* counter as it is now and the commit, if any, runs
TExit(t, out) ==
    /\ tpc[t] = "stored"
    /\ LET r == IF ShouldCommit(_counter, batch_size, now, _last_save, save_every)
                THEN Commit(pending, persisted, poisoned, _last_save, now, out)
                ELSE NoCommit(pending, persisted, poisoned, _last_save)
       IN /\ pending' = r.pending
          /\ persisted' = r.persisted
          /\ poisoned' = r.poisoned
          /\ _last_save' = r.last_save
          /\ committedAt' = IF r.attempts = 1
                            THEN committedAt \cup {_counter} ELSE committedAt
    /\ tpc' = [tpc EXCEPT ![t] = "idle"]
    /\ UNCHANGED <<nextId, now, alive, session, sessionId, batch_size,
                   save_every, _counter, call, sinceCommit, sinceFail,
                   factoryVars, tload, serialized>>

\* ---- make_session ----

\* scope exit without the with-statement: a raising commit skips close()
ScopeExitNoWith(auto, blockRaised, pend, pers, out) ==
    IF blockRaised
    THEN [commits |-> 0, persisted |-> pers, closed |-> TRUE,
          cause |-> "block", raised |-> "block_error"]
    ELSE IF auto
    THEN LET c == SessionCommit(pend, pers, FALSE, out) IN
         [commits |-> 1, persisted |-> c.persisted, closed |-> c.out = "ok",
          cause |-> IF c.out = "ok" THEN "none" ELSE "commit",
          raised |-> IF c.out = "ok" THEN "none" ELSE "commit_error"]
    ELSE [commits |-> 0, persisted |-> pers, closed |-> TRUE,
          cause |-> "none", raised |-> "none"]

\* scope exit that commits on normal exit whatever auto_commit says
ScopeExitAlwaysCommit(auto, blockRaised, pend, pers, out) ==
    IF blockRaised
    THEN [commits |-> 0, persisted |-> pers, closed |-> TRUE,
          cause |-> "block", raised |-> "block_error"]
    ELSE LET c == SessionCommit(pend, pers, FALSE, out) IN
         [commits |-> 1, persisted |-> c.persisted, closed |-> TRUE,
          cause |-> IF c.out = "ok" THEN "none" ELSE "commit",
          raised |-> IF c.out = "ok" THEN "none" ELSE "commit_error"]

\* scope exit with the commit in a finally clause: it runs when the block
\* raised too
ScopeExitCommitInFinally(auto, blockRaised, pend, pers, out) ==
    IF auto
    THEN LET c == SessionCommit(pend, pers, FALSE, out) IN
         [commits |-> 1, persisted |-> c.persisted, closed |-> TRUE,
          cause |-> IF blockRaised THEN "block"
                    ELSE IF c.out = "ok" THEN "none" ELSE "commit",
          raised |-> IF blockRaised THEN "block_error"
                     ELSE IF c.out = "ok" THEN "none" ELSE "commit_error"]
    ELSE [commits |-> 0, persisted |-> pers, closed |-> TRUE,
          cause |-> IF blockRaised THEN "block" ELSE "none",
          raised |-> IF blockRaised THEN "block_error" ELSE "none"]

\* what leaving the make_session scope does: blockRaised says the caller's
\* block raised, out is the outcome of session.commit() should it be called.
\* The with-statement around the yield closes the session on every path.
ScopeExit(auto, blockRaised, pend, pers, out) ==
    IF blockRaised
    THEN [commits |-> 0, persisted |-> pers, closed |-> TRUE,
          cause |-> "block", raised |-> "block_error"]
    ELSE IF auto
    THEN LET c == SessionCommit(pend, pers, FALSE, out) IN
         [commits |-> 1, persisted |-> c.persisted, closed |-> TRUE,
          cause |-> IF c.out = "ok" THEN "none" ELSE "commit",
          raised |-> IF c.out = "ok" THEN "none" ELSE "commit_error"]
    ELSE [commits |-> 0, persisted |-> pers, closed |-> TRUE,
          cause |-> "none", raised |-> "none"]

\* with make_session(auto_commit) as session: a new Session is yielded
EnterScope(auto) ==
    /\ msPc \in {"idle", "exited"}
    /\ msPc' = "in_block"
    /\ msAuto' = auto
    /\ msPending' = {}
    /\ msClosed' = FALSE
    /\ scope' = NoScope
    /\ UNCHANGED <<persisted, nextId, now, adderVars, threadVars>>

\* the caller's block registers one item in the yielded session
BlockWrite ==
    /\ msPc = "in_block"
    /\ nextId <= MaxItems
    /\ msPending' = msPending \cup Fresh(1)
    /\ nextId' = nextId + 1
    /\ scope' = [scope EXCEPT !.written = @ \cup Fresh(1)]
    /\ UNCHANGED <<persisted, now, msPc, msAuto, msClosed, adderVars, threadVars>>

\* the scope is left: normally (blockRaised = FALSE) or by an exception of
\* the block
ExitScope(blockRaised, out) ==
    /\ msPc = "in_block"
    /\ LET x == ScopeExit(msAuto, blockRaised, msPending, persisted, out)
       IN /\ persisted' = x.persisted
          /\ msClosed' = x.closed
          /\ msPending' = IF x.closed THEN {} ELSE msPending
          /\ scope' = [scope EXCEPT !.commits = x.commits,
                                    !.cause = x.cause,
                                    !.raised = x.raised]
    /\ msPc' = "exited"
    /\ UNCHANGED <<nextId, now, msAuto, adderVars, threadVars>>

ExitNormal == \E out \in Outcomes : ExitScope(FALSE, out)

ExitRaise == ExitScope(TRUE, "ok")

AddStep == \E n \in 0..MaxPerCall, d \in 0..1, out \in Outcomes : Add(n, d, out)

AddRaisesStep == \E k \in 0..(MaxPerCall - 1) : AddRaises(k)

CommitStep == \E out \in Outcomes : CommitCall(out)

FinalizeStep == \E out \in Outcomes : Finalize(out)

EnterStep == \E auto \in BOOLEAN : EnterScope(auto)

\* one ItemAdder used by one thread
Next ==
    \/ Tick
    \/ AddStep
    \/ AddRaisesStep
    \/ CommitStep
    \/ FinalizeStep

Spec == Init /\ [][Next]_vars

\* two threads call add(item) on the one ItemAdder, each call in the steps
\* the interpreter can interleave; the clock stands still, so only the count
\* condition can trigger a commit
NextThreads ==
    \/ UseLock
    \/ \E t \in Threads : TBegin(t)
    \/ \E t \in Threads : TLoad(t)
    \/ \E t \in Threads : TStore(t)
    \/ \E t \in Threads, out \in Outcomes : TExit(t, out)

SpecThreads == Init /\ [][NextThreads]_vars

\* one ItemAdder whose owner also clears or closes its session between adds;
\* commits happen inside add and __del__
NextRecreate ==
    \/ AddStep
    \/ FinalizeStep
    \/ DropSession
    \/ CloseSession

SpecRecreate == Init /\ [][NextRecreate]_vars

\* make_session scopes entered one after the other
NextFactory ==
    \/ EnterStep
    \/ BlockWrite
    \/ ExitNormal
    \/ ExitRaise

SpecFactory == Init /\ [][NextFactory]_vars

\* ---- claims ----

\* C1 (as stated): in an add call during which the time condition is false,
\* if the counter goes from below a multiple k*batch_size (k >= 1) to at or
\* above it, the call attempts a commit.
C1_CrossingCommits ==
    (/\ call.op = "add"
     /\ ~call.due
     /\ \E k \in 1..MaxItems :
            /\ _counter - call.n < k * batch_size
            /\ k * batch_size <= _counter)
    => call.attempts >= 1

\* C2 (as stated): after an add call that returns normally, at most
\* batch_size items have been registered since the last successful commit.
C2_AtMostBatchPending ==
    (call.op = "add" /\ call.raised = "none") => sinceCommit <= batch_size

\* C3: an add call that registers its items and starts when more than
\* save_every has elapsed since the last successful commit (or construction)
\* attempts a commit, whatever the counter and the number of items.
C3_StaleAddCommits ==
    (call.op = "add" /\ call.stale) => call.attempts >= 1

\* C3 witness: a stale add committed although the counter is off a multiple
C3_Witness ==
    /\ call.op = "add"
    /\ call.stale
    /\ _counter % batch_size # 0
    /\ call.attempts = 1

\* C4: a commit that fails with a database error, in commit(), add or
\* __del__, leaves no item pending, persists nothing, re-raises the error
\* and is the only commit attempt of the call.
C4_FailedCommitRollsBack ==
    [][call'.out = "db_error" =>
          /\ pending' = {}
          /\ persisted' = persisted
          /\ call'.raised = "db_error"
          /\ call'.attempts = 1]_vars

\* C4 witness: a commit triggered inside add failed after an earlier commit
\* had persisted items, and the items registered since then are gone
C4_Witness ==
    /\ call.op = "add"
    /\ call.out = "db_error"
    /\ persisted # {}
    /\ sinceCommit >= 2
    /\ pending = {}

\* C5: the session is never left poisoned by a failed commit; an add call
\* whose commit (if any) is not refused by the database returns normally with
\* its items registered; a successful commit persists exactly the items
\* registered since the last commit attempt, so after a failure exactly the
\* items added after it.
C5_NotPoisoned ==
    [][/\ ~poisoned'
       /\ pending' = sinceFail'
       /\ (call'.op = "add" /\ call'.db # "db_error") =>
             /\ call'.raised = "none"
             /\ (nextId .. (nextId' - 1)) \subseteq (pending' \cup persisted')
       /\ call'.out = "ok" =>
             persisted' = persisted \cup sinceFail \cup (nextId .. (nextId' - 1))
      ]_vars

\* C5 witness: item 1 was lost to a failed commit and a later add committed
\* successfully
C5_Witness ==
    /\ call.op = "add"
    /\ call.out = "ok"
    /\ 1 \notin persisted
    /\ persisted # {}

\* C6: once a make_session scope is left the session is closed, and what
\* reaches the caller is the failure that ended the scope: the block's, the
\* commit's, or none.
C6_AlwaysClosed ==
    msPc = "exited" =>
        /\ msClosed
        /\ scope.cause = "none" => scope.raised = "none"
        /\ scope.cause = "block" => scope.raised = "block_error"
        /\ scope.cause = "commit" => scope.raised = "commit_error"

\* C6 witness: the auto-commit step raised and the session is closed
C6_Witness ==
    /\ msPc = "exited"
    /\ scope.cause = "commit"
    /\ scope.written # {}
    /\ msClosed

\* C7: when the block of a make_session scope ends normally the factory
\* commits exactly once under auto_commit=True and never under
\* auto_commit=False; the items written are persisted in the first case when
\* the commit succeeds and not persisted in the second.
C7_CommitIffAuto ==
    (msPc = "exited" /\ scope.cause # "block") =>
        /\ scope.commits = IF msAuto THEN 1 ELSE 0
        /\ (msAuto /\ scope.raised = "none") => scope.written \subseteq persisted
        /\ ~msAuto => scope.written \cap persisted = {}

\* C7 witness: a scope with auto_commit=True exited normally and its items
\* are persisted
C7_Witness ==
    /\ msPc = "exited"
    /\ msAuto
    /\ scope.raised = "none"
    /\ scope.commits = 1
    /\ scope.written # {}
    /\ scope.written \subseteq persisted

\* C8: when the block of a make_session scope raises, the factory commits
\* nothing, with either value of auto_commit, and the session is closed.
C8_NoCommitOnRaise ==
    (msPc = "exited" /\ scope.cause = "block") =>
        /\ scope.commits = 0
        /\ scope.written \cap persisted = {}
        /\ msClosed

\* C8 witness: the block of an auto_commit=True scope raised after writing
C8_Witness ==
    /\ msPc = "exited"
    /\ scope.cause = "block"
    /\ msAuto
    /\ scope.written # {}
    /\ msClosed

\* C9 (as stated): after __del__ of an ItemAdder that holds a session, the
\* session is closed and no item is pending, whatever the commit's outcome.
C9_FinalizeCloses ==
    call.op = "del" => (session = "closed" /\ pending = {})

C11_EmptyAddRetriggers ==
    [][(call'.op = "add" /\ call'.n = 0) =>
          /\ _counter' = _counter
          /\ (_counter % batch_size = 0) => call'.attempts = 1]_vars

\* C11 witness: a zero-item add inside the time window committed again on
\* the multiple left by an earlier add
C11_Witness ==
    /\ call.op = "add"
    /\ call.n = 0
    /\ ~call.due
    /\ _counter > 0
    /\ _counter % batch_size = 0
    /\ call.attempts = 1

\* C12 (as stated): the counter equals the number of items registered in
\* the session by all add calls since construction.
C12_CounterIsTotal ==
    _counter = nextId - 1

\* C12 (amended): the counter only moves in an add call whose add_all
\* returned, where it grows by the number of items passed; no commit,
\* successful or failed, no finalization and no add whose add_all raised
\* changes it.
C12_CounterCumulative ==
    [][IF call'.op = "add"
       THEN _counter' = _counter + (nextId' - nextId)
       ELSE _counter' = _counter]_vars

\* C12 witness: without any failure, a commit on the count condition alone
\* committed fewer than batch_size items at a counter that is a positive
\* multiple, the rest having been committed earlier
C12_Witness ==
    /\ call.op = "add"
    /\ call.short
    /\ call.out = "ok"
    /\ call.n >= 1
    /\ _counter > 0
    /\ _counter % batch_size = 0
    /\ _counter = nextId - 1
    /\ persisted = 1 .. (nextId - 1)

\* C13: a successful commit sets _last_save to the current time; a failed
\* one leaves _last_save as it was and the counter at the value the call
\* gave it; once more than save_every has elapsed the time condition stays
\* true until a commit succeeds, and every add that registers its items
\* meanwhile attempts a commit.
C13_LastSaveOnSuccessOnly ==
    [][/\ (call'.out = "ok" /\ ~Tick) => _last_save' = now'
       /\ call'.out = "db_error" =>
             /\ _last_save' = _last_save
             /\ _counter' = _counter + (nextId' - nextId)
       /\ (now - _last_save > save_every /\ call'.out # "ok") =>
             /\ now' - _last_save' > save_every
             /\ (call'.op = "add" /\ ~Tick) => call'.attempts = 1
      ]_vars

\* C13 witness: a time-triggered commit failed in an add that started stale
\* after earlier items had already been lost, and the time condition still
\* holds
C13_Witness ==
    /\ call.op = "add"
    /\ call.stale
    /\ call.out = "db_error"
    /\ _counter % batch_size # 0
    /\ now - _last_save > save_every
    /\ persisted = {}
    /\ nextId - 1 > call.n

\* C14: an add call creates a new session exactly when self.session is
\* absent when it starts: the new session holds only the items of that call,
\* the counter moves only by the items the call counts and _last_save only
\* if the call's commit succeeds; a session that is present, open, closed or
\* rolled back, is never replaced, and no other operation creates one.
C14_RecreateOnlyWhenAbsent ==
    [][/\ (session = "none" /\ (AddStep \/ AddRaisesStep)) =>
             /\ sessionId' = sessionId + 1
             /\ session' = "open"
             /\ (pending' \cup (persisted' \ persisted)) \subseteq nextId .. (nextId' - 1)
             /\ _counter' = _counter + (IF call'.op = "add" THEN call'.n ELSE 0)
             /\ call'.out # "ok" => _last_save' = _last_save
       /\ session # "none" => sessionId' = sessionId
       /\ sessionId' # sessionId => (AddStep \/ AddRaisesStep)
      ]_vars

\* C14 witness: the second session, created by an add after the field was
\* cleared, was then closed and a later add kept it; the counter still
\* counts the items of the first session
C14_Witness ==
    /\ sessionId = 2
    /\ session = "closed"
    /\ call.op = "add"
    /\ call.n >= 1
    /\ pending # {}
    /\ _counter > call.n

\* C15: when the callers serialize their add calls, every multiple of
\* batch_size the counter has reached by single-item adds saw a commit
\* attempt and no increment is lost; without serialization this fails (the
\* witness: the counter went past a multiple that no add observed).
C15_SerializedAddsCommit ==
    (serialized /\ \A t \in Threads : tpc[t] = "idle") =>
        /\ _counter = nextId - 1
        /\ \A m \in 1.._counter : (m % batch_size = 0) => m \in committedAt

\* C15 witness: two unserialized threads are back from add, every item was
\* counted, and the counter is past a multiple of batch_size at which no add
\* attempted a commit
C15_Witness ==
    /\ ~serialized
    /\ \A t \in Threads : tpc[t] = "idle"
    /\ _counter = nextId - 1
    /\ \E m \in 1..(_counter - 1) : m % batch_size = 0 /\ m \notin committedAt

====
